---- MODULE Spec2Model ----
\* Model of the emotion inference service (kinleyrabgay/emotionsense_be):
\* the POST /detect handler, the detect_emotion pipeline it calls and the
\* user store the history side effect writes to.
EXTENDS Integers, Sequences, FiniteSets, TLC

\* ------------------------------------------------------------------ bounds
\* longest list of regions one detector run returns
MaxFaces == 2
\* largest value of one entry of the probability vector (in model units)
MaxProb == 1
\* most entries of one probability vector that are non-zero
MaxNonZero == 2
\* number of concurrent calls of UserService.update_emotion
MaxTasks == 2
MaxHistory == 1        \* entries of an emotionHistory the routes are run up to
MaxRecords == 1        \* documents of the emotions collection
MaxCode == 5           \* largest integer stored as currentEmotion
MaxText == 2           \* characters of a string stored as currentEmotion
MaxDim == 10           \* largest width and height of a frame without a face
MaxTime == 9           \* ticks of the camera client's clock

\* ------------------------------------------------------- program constants
\* imutils.resize(frame, width=300)
FrameWidth == 300
\* minSize=(30, 30) of the strict tier, minSize=(20, 20) of the relaxed tier
StrictMinSize == 30
RelaxedMinSize == 20

\* EMOTIONS, the classifier's label order (index 0 of the code is position 1)
EMOTIONS == <<"angry", "disgust", "scared", "happy", "sad", "surprised", "neutral">>

\* class Emotion(int, Enum): member name -> value
Emotion == [HAPPY |-> 0, SAD |-> 1, ANGRY |-> 2, SURPRISED |-> 3, NEUTRAL |-> 4]

\* str.upper() on the labels the classifier can produce
Upper(s) ==
    CASE s = "angry" -> "ANGRY"
      [] s = "disgust" -> "DISGUST"
      [] s = "scared" -> "SCARED"
      [] s = "happy" -> "HAPPY"
      [] s = "sad" -> "SAD"
      [] s = "surprised" -> "SURPRISED"
      [] s = "neutral" -> "NEUTRAL"
      [] OTHER -> s

\* Python's None for ids, enum members and frames
None == "None"
NoValue == -1

\* ------------------------------------------------------------- byte strings
\* A byte string is empty, junk (no raster image), the text of a JSON body,
\* or an encoded image of w0 x h0 pixels.
Bytes(kind, w0, h0) == [kind |-> kind, w0 |-> w0, h0 |-> h0]
EmptyBytes == Bytes("empty", 0, 0)
JunkBytes == Bytes("junk", 0, 0)
JsonText == Bytes("jsontext", 0, 0)
Images == {Bytes("image", 300, 150), Bytes("image", 600, 2), Bytes("image", 600, 1)}
Payloads == {EmptyBytes, JunkBytes} \cup Images

\* `not image_bytes`
IsFalsyBytes(b) == b.kind = "empty"

\* ------------------------------------------------------------------ requests
\* An upload form field (UploadFile or None).
NoUpload == [present |-> FALSE, filename |-> "", data |-> EmptyBytes]
Upload(d) == [present |-> TRUE, filename |-> "face.jpg", data |-> d]
Uploads == {NoUpload} \cup {Upload(d) : d \in {EmptyBytes, JunkBytes, Bytes("image", 300, 150)}}

\* The value of the "image" key of a JSON body: absent, "" or a base64 text
\* (with or without a data-URL prefix) that decodes to `payload`, or one with
\* incorrect padding, which base64.b64decode rejects, or one with characters
\* outside the base64 alphabet ("stray"), which base64.b64decode (validate
\* defaults to False) discards before it decodes the rest to `payload`.
B64(kind, prefix, payload) == [kind |-> kind, prefix |-> prefix, payload |-> payload]
B64Absent == B64("absent", FALSE, EmptyBytes)
B64Texts ==
    {B64Absent, B64("emptystr", FALSE, EmptyBytes), B64("badpad", FALSE, EmptyBytes),
     B64("ok", FALSE, EmptyBytes), B64("ok", TRUE, JunkBytes),
     B64("stray", FALSE, EmptyBytes), B64("stray", FALSE, JunkBytes),
     B64("stray", FALSE, Bytes("image", 300, 150))}
      \cup {B64("ok", p, i) : p \in BOOLEAN, i \in Images}

UserIds == {"u1", "ghost"}
UserIdArgs == {None} \cup UserIds

\* A parsed JSON document: a dict with optional "image" and "user_id" keys, or
\* a document that is no dict (a list, a number).
Json(shape, image, uid) == [shape |-> shape, image |-> image, user_id |-> uid]
JsonDocs ==
    {Json("dict", i, u) : i \in B64Texts, u \in UserIdArgs}
      \cup {Json("list", B64Absent, None), Json("number", B64Absent, None)}

\* A request body: nothing, raw bytes, or the text of a JSON document.
Body(kind, raw, json) == [kind |-> kind, raw |-> raw, json |-> json]
NoJson == Json("list", B64Absent, None)
Bodies ==
    {Body("empty", EmptyBytes, NoJson)}
      \cup {Body("raw", b, NoJson) : b \in {JunkBytes} \cup Images}
      \cup {Body("json", JsonText, j) : j \in JsonDocs}

\* `await request.body()`
RequestBody(req) == req.body.raw

Requests ==
    {[image |-> NoUpload, file |-> NoUpload, ctype |-> c, body |-> b, user_id |-> u] :
        c \in {"application/json", "image/jpeg"}, b \in Bodies, u \in UserIdArgs}
      \cup
    {[image |-> i, file |-> f, ctype |-> "multipart/form-data",
      body |-> Body("raw", JunkBytes, NoJson), user_id |-> u] :
        i \in Uploads, f \in Uploads, u \in UserIdArgs}

\* base64_data.split("base64,")[1] followed by base64.b64decode(base64_data)
B64Decode(t) == IF t.kind = "badpad" THEN [raised |-> TRUE, bytes |-> EmptyBytes]
                ELSE [raised |-> FALSE, bytes |-> t.payload]

Resolved(outcome, status, detail, bytes, uid, source) ==
    [outcome |-> outcome, status |-> status, detail |-> detail,
     image_bytes |-> bytes, received_user_id |-> uid, source |-> source]

\* The JSON branch of the handler: request.json() and the "image" key.
\* Yields the bytes it decoded (EmptyBytes when it decoded none).
ResolveJson(req) ==
    IF req.body.kind # "json"
    THEN \* request.json() raises ValueError: `pass`
         Resolved("ok", 200, "", EmptyBytes, req.user_id, "none")
    ELSE LET j == req.body.json IN
         IF j.shape = "number"
         THEN \* `"image" in json_data` raises TypeError: the outer handler
              Resolved("raise", 500, "Error processing request", EmptyBytes, req.user_id, "none")
         ELSE IF j.shape = "list" \/ j.image.kind \in {"absent", "emptystr"}
         THEN Resolved("ok", 200, "", EmptyBytes, req.user_id, "none")
         ELSE LET d == B64Decode(j.image) IN
              IF d.raised
              THEN Resolved("raise", 400, "Invalid base64 image data", EmptyBytes, req.user_id, "none")
              ELSE Resolved("ok", 200, "", d.bytes,
                            IF req.user_id = None /\ j.user_id # None
                            THEN j.user_id ELSE req.user_id,
                            "json")

\* Lines 41-91 of the handler: the image bytes and the identity of the call.
ResolveImageBytes(req) ==
    LET fromBody(r) ==
            IF IsFalsyBytes(r.image_bytes)
            THEN IF IsFalsyBytes(RequestBody(req))
                 THEN Resolved("ok", 200, "", EmptyBytes, r.received_user_id, "none")
                 ELSE Resolved("ok", 200, "", RequestBody(req), r.received_user_id, "raw")
            ELSE r
        got ==
            IF req.image.present /\ req.image.filename # ""
            THEN Resolved("ok", 200, "", req.image.data, req.user_id, "image")
            ELSE IF req.file.present /\ req.file.filename # ""
            THEN Resolved("ok", 200, "", req.file.data, req.user_id, "file")
            ELSE LET j == IF req.ctype = "application/json" THEN ResolveJson(req)
                          ELSE Resolved("ok", 200, "", EmptyBytes, req.user_id, "none")
                 IN IF j.outcome = "raise" THEN j ELSE fromBody(j)
    IN IF got.outcome = "ok" /\ IsFalsyBytes(got.image_bytes)
       THEN Resolved("raise", 400, "No image data found in request",
                     EmptyBytes, got.received_user_id, "none")
       ELSE got

\* The input forms of a request that carry image bytes: an upload field with a
\* file name and content, a JSON body whose "image" decodes to bytes, a raw
\* body that is neither a form nor a JSON document.
FormsWithBytes(req) ==
    {f \in {"upload", "json", "raw"} :
        \/ /\ f = "upload"
           /\ \/ req.image.filename # "" /\ ~IsFalsyBytes(req.image.data)
              \/ req.file.filename # "" /\ ~IsFalsyBytes(req.file.data)
        \/ /\ f = "json"
           /\ req.ctype = "application/json"
           /\ req.body.kind = "json"
           /\ req.body.json.shape = "dict"
           /\ ~B64Decode(req.body.json.image).raised
           /\ ~IsFalsyBytes(B64Decode(req.body.json.image).bytes)
        \/ /\ f = "raw"
           /\ req.ctype # "multipart/form-data"
           /\ ~(req.ctype = "application/json" /\ req.body.kind = "json")
           /\ ~IsFalsyBytes(RequestBody(req))}

\* The kind of the "image" value of a request that is a JSON document
\* ("none" for a request that is no JSON document).
JsonImageKind(req) ==
    IF req.ctype = "application/json" /\ req.body.kind = "json"
    THEN IF req.body.json.shape = "dict" THEN req.body.json.image.kind ELSE "nodict"
    ELSE "none"

\* What is remembered of the request of the call in progress.
RequestInfo(source, forms, b64) == [source |-> source, forms |-> forms, b64 |-> b64]
NoRequestInfo == RequestInfo("none", {}, "none")

\* ------------------------------------------------------------ the pipeline
\* cv2.imdecode: a frame for an encoded image, None for anything else
Decodes(b) == b.kind = "image"

\* imutils.resize(frame, width=300): the height of the resized frame,
\* int(h * (300 / float(w))); exact for the images of the model
ResizedHeight(b) == (b.h0 * FrameWidth) \div b.w0

\* A face rectangle (x, y, w, h) as detectMultiScale returns it.
Region(x, y, w, h) == [x |-> x, y |-> y, w |-> w, h |-> h]
Regions ==
    {Region(0, 0, 30, 30), Region(100, 100, 30, 30), Region(0, 100, 60, 40),
     Region(10, 10, 20, 20), Region(100, 0, 25, 25)}

SeqsUpTo(S, n) == UNION {[1..k -> S] : k \in 0..n}

\* What one run of face_detection.detectMultiScale can return on a frame of
\* FrameWidth x h: rectangles inside the frame, no smaller than minSize.
DetectorOutputs(minSize, h) ==
    SeqsUpTo({r \in Regions : /\ r.w >= minSize /\ r.h >= minSize
                              /\ r.x + r.w <= FrameWidth /\ r.y + r.h <= h},
             MaxFaces)

\* Lines 87-92: the centre of the image as the only face.
\* Mutant of CenterFallback: the region starts at the quarter point and has
\* the size of the frame.
CenterFallbackFullSize(w, h) == <<Region(w \div 4, h \div 4, w, h)>>

CenterFallback(w, h) == <<Region(w \div 4, h \div 4, w \div 2, h \div 2)>>

\* key=lambda x: (x[2] - x[0]) * (x[3] - x[1]) on a row (x, y, w, h)
SortKey(r) == (r.w - r.x) * (r.h - r.y)

RemoveAt(s, i) == SubSeq(s, 1, i - 1) \o SubSeq(s, i + 1, Len(s))

\* sorted(faces, reverse=True, key=...): stable, so rows of equal key keep
\* their order.
RECURSIVE SortedFaces(_)
SortedFaces(faces) ==
    IF faces = <<>> THEN <<>>
    ELSE LET top == CHOOSE i \in 1..Len(faces) :
                      /\ \A j \in 1..Len(faces) : SortKey(faces[j]) <= SortKey(faces[i])
                      /\ \A j \in 1..(i - 1) : SortKey(faces[j]) < SortKey(faces[i])
         IN <<faces[top]>> \o SortedFaces(RemoveAt(faces, top))

\* Lines 99-105: sort when there is more than one face, take faces[0].
SelectFace(faces) == IF Len(faces) > 1 THEN SortedFaces(faces)[1] ELSE faces[1]

Min(a, b) == IF a <= b THEN a ELSE b

\* gray[fY:fY + fH, fX:fX + fW]: rows and columns of the slice (numpy clamps
\* a slice to the array)
RoiShape(r, w, h) ==
    [rows |-> Min(r.y + r.h, h) - Min(r.y, h), cols |-> Min(r.x + r.w, w) - Min(r.x, w)]

\* The probability vectors emotion_classifier.predict can return (the output
\* of a softmax layer: some entry is positive).
PredVectors ==
    {p \in [1..Len(EMOTIONS) -> 0..MaxProb] :
        Cardinality({i \in 1..Len(EMOTIONS) : p[i] > 0}) \in 1..MaxNonZero}

\* np.max(preds)
MaxOf(p) == CHOOSE m \in {p[i] : i \in DOMAIN p} : \A i \in DOMAIN p : p[i] <= m

\* np.argmax(preds): the first position of the maximum
ArgMax(p) == CHOOSE i \in DOMAIN p : /\ p[i] = MaxOf(p)
                                     /\ \A j \in DOMAIN p : j < i => p[j] < p[i]

\* ------------------------------------------------------------ the user store
\* The emotions a stored history is made of at the start (HAPPY, SAD).
StoredEmotions == {Emotion.HAPPY, Emotion.SAD}
StoredUsers == {"u1"}

\* A user document: currentEmotion and emotionHistory (the emotion of each
\* entry, oldest first).
UserDoc(cur, hist) == [currentEmotion |-> cur, emotionHistory |-> hist]

\* getattr(UserEmotion, name, None)
LookupEmotion(name) == IF name \in DOMAIN Emotion THEN Emotion[name] ELSE NoValue

\* `if emotion_enum:` on None or a member of an int Enum
Truthy(e) == e # NoValue /\ e # 0

\* Mutant of PushEmotion: the history is written back from the document that
\* find_one returned, with the new entry appended (read-modify-write).
WriteBackSnapshot(doc, snapshot, emotion) ==
    UserDoc(emotion, Append(snapshot.emotionHistory, emotion))

\* Mutant of PushEmotion: the entry is pushed without the $set of
\* currentEmotion.
PushWithoutSet(doc, snapshot, emotion) ==
    UserDoc(doc.currentEmotion, Append(doc.emotionHistory, emotion))

\* update_one of update_emotion (lines 91-102) applied to the stored document:
\* $set currentEmotion and $push one entry to emotionHistory, as one atomic
\* operation of the store; the document read by find_one is not written back.
PushEmotion(doc, snapshot, emotion) ==
    UserDoc(emotion, Append(doc.emotionHistory, emotion))

\* UserService.update_emotion(user_id, emotion): find_one, add_emotion_history,
\* update_one with $set currentEmotion and $push emotionHistory.
\* `fail` is the storage step that raises ("none", "find", "update").
UpdateEmotion(st, user_id, emotion, fail) ==
    IF fail = "find"
    THEN [value |-> FALSE, users |-> st, ops |-> <<"find_one">>]
    ELSE IF user_id \notin DOMAIN st
    THEN [value |-> FALSE, users |-> st, ops |-> <<"find_one">>]
    ELSE IF fail = "update"
    THEN [value |-> FALSE, users |-> st, ops |-> <<"find_one", "update_one">>]
    ELSE [value |-> TRUE,
          users |-> [st EXCEPT ![user_id] = PushEmotion(@, @, emotion)],
          ops |-> <<"find_one", "update_one">>]

\* A call of UserService.update_emotion with the positional arguments `args`:
\* Python raises TypeError before the body runs unless there are exactly two.
CallUpdateEmotion(st, args, fail) ==
    IF Len(args) # 2
    THEN [raised |-> TRUE, value |-> FALSE, users |-> st, ops |-> <<>>]
    ELSE [raised |-> FALSE] @@ UpdateEmotion(st, args[1], args[2], fail)

\* What the side effect did: outcome is "not_attempted", "raised" (the call of
\* update_emotion raised), "false" or "true" (what it returned); propagated
\* says that an exception left the try block of lines 115-124.
Dispatched(outcome, propagated, updated, st, ops) ==
    [outcome |-> outcome, propagated |-> propagated, user_updated |-> updated,
     users |-> st, ops |-> ops]

\* Mutant of DispatchHistory: no try/except around the update, so an exception
\* of the update call leaves the handler's inner block.
DispatchHistoryUnguarded(st, uid, emotion_name, confidence, fail) ==
    LET emotion_enum == LookupEmotion(Upper(emotion_name)) IN
    IF uid = None \/ ~Truthy(emotion_enum)
    THEN Dispatched("not_attempted", FALSE, FALSE, st, <<>>)
    ELSE LET c == CallUpdateEmotion(st, <<uid, emotion_enum, confidence>>, fail) IN
         IF c.raised
         THEN Dispatched("raised", TRUE, FALSE, c.users, c.ops)
         ELSE Dispatched(IF c.value THEN "true" ELSE "false", FALSE, c.value,
                         c.users, c.ops)

\* Mutant of DispatchHistory: the `if received_user_id:` test is missing.
DispatchHistoryAnyCaller(st, uid, emotion_name, confidence, fail) ==
    LET emotion_enum == LookupEmotion(Upper(emotion_name)) IN
    IF ~Truthy(emotion_enum)
    THEN Dispatched("not_attempted", FALSE, FALSE, st, <<>>)
    ELSE LET c == CallUpdateEmotion(st, <<uid, emotion_enum, confidence>>, fail) IN
         IF c.raised
         THEN Dispatched("raised", FALSE, FALSE, c.users, c.ops)
         ELSE Dispatched(IF c.value THEN "true" ELSE "false", FALSE, c.value,
                         c.users, c.ops)

\* Lines 110-124 of the handler: the history side effect of a detected face.
DispatchHistory(st, uid, emotion_name, confidence, fail) ==
    IF uid = None
    THEN Dispatched("not_attempted", FALSE, FALSE, st, <<>>)
    ELSE LET emotion_enum == LookupEmotion(Upper(emotion_name)) IN
         IF ~Truthy(emotion_enum)
         THEN Dispatched("not_attempted", FALSE, FALSE, st, <<>>)
         ELSE LET c == CallUpdateEmotion(st, <<uid, emotion_enum, confidence>>, fail) IN
              IF c.raised
              THEN \* except Exception: logged, the request goes on
                   Dispatched("raised", FALSE, FALSE, c.users, c.ops)
              ELSE Dispatched(IF c.value THEN "true" ELSE "false", FALSE, c.value,
                              c.users, c.ops)

\* ------------------------------------------------------------------- state
VARIABLES
    emotion_classifier,  \* module global: "loaded", or None when load_model failed
    load_attempts,       \* history: calls of load_model since the process started
    users,               \* the users collection: id -> document
    pc,                  \* position of the call being served
    image_bytes,         \* handler local: the resolved bytes
    received_user_id,    \* handler local: the identity of the call, or None
    frame_h,             \* detect_emotion local: height of the resized frame
    faces,               \* detect_emotion local: the current list of faces
    selected,            \* detect_emotion local: (fX, fY, fW, fH)
    result,              \* what detect_emotion returned
    response,            \* what the handler answers
    detector_out,        \* history: the lists the detector returned, while locating
    detector_runs,       \* history: tier and number of regions of each detector run
    classifier_calls,    \* history: predict() invocations of this call
    history_outcome,     \* history: what the call of update_emotion did, if made
    storage_fault,       \* history: the storage step that fails during this call
    store_ops,           \* history: store operations made by this call
    request_info,        \* history: the source and input forms of the request
    tasks,               \* the concurrent calls of UserService.update_emotion
    prior_history,       \* history: emotionHistory of each user at process start
    active_connections,  \* ConnectionManager: user id -> set of WebSockets
    send,                \* the call of send_personal_message in progress
    endpoint,            \* websocket_endpoint of each socket: its user_id, or None
    remembered,          \* history: the inputs and the answer of an earlier call
    api,                 \* the call of a users or emotions route being served
    emotion_records,     \* the emotions collection
    applied,             \* the last application of a pure function: input and result
    camera               \* the camera client: clock, main-loop locals and threads

callVars == <<pc, image_bytes, received_user_id, frame_h, faces, selected, result,
              response, detector_out, detector_runs, classifier_calls,
              history_outcome, storage_fault, store_ops, request_info>>
storeVars == <<tasks, prior_history>>
wsVars == <<active_connections, send, endpoint>>
probeVars == <<remembered>>
apiVars == <<api, emotion_records>>
pureVars == <<applied>>
cameraVars == <<camera>>
vars == <<emotion_classifier, load_attempts, users, callVars, storeVars, wsVars,
          probeVars, apiVars, pureVars, cameraVars>>

NoRegion == Region(0 - 1, 0 - 1, 0 - 1, 0 - 1)
NoPreds == <<>>

Result(kind, detail, loc, emotion, confidence, probs) ==
    [kind |-> kind, detail |-> detail, face_location |-> loc, emotion |-> emotion,
     confidence |-> confidence, emotion_probabilities |-> probs]
NoResult == Result("none", "", NoRegion, "", 0, NoPreds)
ErrorResult(detail) == Result("error", detail, NoRegion, "", 0, NoPreds)
\* {"faces": [], "message": "No faces detected in the image"}
NoFacesResult == Result("nofaces", "", NoRegion, "", 0, NoPreds)

Response(kind, status, message, emotion, confidence, updated) ==
    [kind |-> kind, status |-> status, message |-> message, emotion |-> emotion,
     confidence |-> confidence, user_updated |-> updated]
NoResponse == Response("none", 0, "", "", 0, FALSE)
\* The keys of the JSON object of an answer: "status", "message" and the keys
\* of its "data" object for a 200 answer, "detail" for an HTTPException.
ResponseKeys(r) ==
    IF r.kind = "ok"
    THEN {"status", "message", "emotion", "confidence", "timestamp", "user_updated"}
    ELSE IF r.kind = "error" THEN {"detail"} ELSE {}
\* raise HTTPException(status_code=..., detail=...)
HttpError(status, detail) == Response("error", status, detail, "", 0, FALSE)

\* A call of UserService.update_emotion: its position, arguments, the
\* document find_one returned and the value it returned.
Tasks == 1..MaxTasks
Task(at, user_id, emotion, user_data, value) ==
    [pc |-> at, user_id |-> user_id, emotion |-> emotion, user_data |-> user_data,
     value |-> value]
NoDoc == UserDoc(NoValue, <<>>)
IdleTask == Task("idle", None, NoValue, NoDoc, FALSE)

\* The users and WebSocket objects of the connection manager.
WsUsers == {"u1", "u2"}
Sockets == {"w1", "w2", "w3"}

\* `self.active_connections = {}` (the dict has no key)
EmptyDict == [u \in {} |-> {}]
\* `del d[key]`
DelKey(d, key) == [k \in DOMAIN d \ {key} |-> d[k]]
\* `d[key] = value`
SetKey(d, key, value) == [k \in DOMAIN d \cup {key} |-> IF k = key THEN value ELSE d[k]]

\* A call of send_personal_message: its position, the user, the connections
\* the loop has still to visit, the local set `disconnected`, and as history
\* the connections registered when it was called, those whose send_text was
\* awaited and those whose send_text returned.
SendCall(at, user_id, to_visit, disconnected, registered, attempted, delivered) ==
    [pc |-> at, user_id |-> user_id, to_visit |-> to_visit,
     disconnected |-> disconnected, registered |-> registered,
     attempted |-> attempted, delivered |-> delivered,
     \* the set iterator of the loop: the size of the set when the loop began,
     \* and whether the set object has been cleared and its entry deleted since
     iter_used |-> Cardinality(registered), detached |-> FALSE,
     \* the connection whose send_text is awaited
     current |-> None]
NoSend == SendCall("idle", None, {}, {}, {}, {}, {})

\* No earlier call is remembered.
NothingRemembered == {}

\* A stored currentEmotion value: absent, None, an int, a bool, a float or a
\* string (its characters).
Raw(type, value, text) == [type |-> type, value |-> value, text |-> text]

\* No pure function has been applied.
NothingApplied ==
    [fn |-> None, raw |-> Raw("missing", 0, <<>>), w |-> 0, h |-> 0,
     raised |-> FALSE, emotion |-> NoValue, region |-> <<>>]

\* --interval of the camera client, in ticks of its clock
AnalysisInterval == 3

\* The camera client when its main loop begins (lines 202-204): no analysis
\* yet, no thread; the clock reads no less than one interval.
CameraStart ==
    [now |-> AnalysisInterval, last_analysis_time |-> 0,
     analysis_in_progress |-> FALSE, current_result |-> None, threads |-> <<>>,
     previous_start |-> NoValue, ended |-> {}]

\* No route of the users or emotions router is being served.
NoApiCall ==
    [route |-> None, pc |-> "idle", caller |-> None, target |-> None,
     emotion |-> NoValue, intensity |-> 0, fault |-> "none", success |-> FALSE,
     broadcast |-> FALSE, delivered |-> {}, inserted |-> 0, status |-> 0,
     message |-> ""]

\* The emotionHistory a stored user has when the process starts.
InitialHistories == {<<>>, <<Emotion.SAD>>}

Init ==
    /\ emotion_classifier = "unset"
    /\ load_attempts = 0
    /\ \E h \in InitialHistories :
          users = [u \in StoredUsers |->
                     UserDoc(IF h = <<>> THEN Emotion.NEUTRAL ELSE h[Len(h)], h)]
    /\ pc = "starting"
    /\ image_bytes = EmptyBytes
    /\ received_user_id = None
    /\ frame_h = NoValue
    /\ faces = <<>>
    /\ selected = NoRegion
    /\ result = NoResult
    /\ response = NoResponse
    /\ detector_out = <<>>
    /\ detector_runs = <<>>
    /\ classifier_calls = 0
    /\ history_outcome = "not_attempted"
    /\ storage_fault = "none"
    /\ store_ops = <<>>
    /\ request_info = NoRequestInfo
    /\ tasks = [t \in Tasks |-> IdleTask]
    /\ prior_history = [u \in StoredUsers |-> users[u].emotionHistory]
    /\ active_connections = EmptyDict
    /\ send = NoSend
    /\ endpoint = [ws \in Sockets |-> None]
    /\ remembered = NothingRemembered
    /\ api = NoApiCall
    /\ emotion_records = <<>>
    /\ applied = NothingApplied
    /\ camera = CameraStart

\* ----------------------------------------------------------------- actions
\* emotion_detection.py lines 28-34, run once when the module is imported:
\* load_model succeeds, or raises and leaves emotion_classifier None.
LoadModel ==
    /\ pc = "starting"
    /\ emotion_classifier' \in {"loaded", None}
    /\ load_attempts' = load_attempts + 1
    /\ pc' = "idle"
    /\ UNCHANGED <<users, image_bytes, received_user_id, frame_h, faces, selected,
                   result, response, detector_out, detector_runs, classifier_calls,
                   history_outcome, storage_fault, store_ops, request_info>>
    /\ UNCHANGED <<storeVars, wsVars, probeVars, apiVars, pureVars, cameraVars>>

\* Handler lines 41-91: take a request and resolve its bytes and identity.
Receive ==
    /\ pc = "idle"
    /\ \E req \in Requests :
          LET r == ResolveImageBytes(req) IN
          /\ image_bytes' = r.image_bytes
          /\ received_user_id' = r.received_user_id
          /\ request_info' = RequestInfo(r.source, FormsWithBytes(req), JsonImageKind(req))
          /\ IF r.outcome = "raise"
             THEN /\ response' = HttpError(r.status, r.detail)
                  /\ pc' = "failed"
             ELSE /\ response' = response
                  /\ pc' = "resolved"
    /\ UNCHANGED <<emotion_classifier, load_attempts, users, frame_h, faces, selected,
                   result, detector_out, detector_runs, classifier_calls,
                   history_outcome, storage_fault,
                   store_ops>>
    /\ UNCHANGED <<storeVars, wsVars, probeVars, apiVars, pureVars, cameraVars>>

\* Mutant of ModelCheck: a call that finds no classifier tries to load it again.
ModelCheckReloading(classifier, attempts) ==
    IF classifier = None
    THEN [unavailable |-> TRUE, classifier |-> None, attempts |-> attempts + 1]
    ELSE [unavailable |-> FALSE, classifier |-> classifier, attempts |-> attempts]

\* `if emotion_classifier is None: return {"error": ...}` (lines 43-44): the
\* call reads the global and neither loads nor assigns it.
ModelCheck(classifier, attempts) ==
    [unavailable |-> classifier = None, classifier |-> classifier, attempts |-> attempts]

\* detect_emotion lines 43-64: the model check, decode, resize and grayscale.
Decode ==
    /\ pc = "resolved"
    /\ emotion_classifier' = ModelCheck(emotion_classifier, load_attempts).classifier
    /\ load_attempts' = ModelCheck(emotion_classifier, load_attempts).attempts
    /\ IF ModelCheck(emotion_classifier, load_attempts).unavailable
       THEN /\ result' = ErrorResult("Emotion detection model not loaded")
            /\ pc' = "result"
            /\ frame_h' = frame_h
       ELSE IF ~Decodes(image_bytes)
       THEN /\ result' = ErrorResult("Failed to decode image")
            /\ pc' = "result"
            /\ frame_h' = frame_h
       ELSE IF ResizedHeight(image_bytes) = 0
       THEN \* cv2.resize raises on an empty size: except Exception
            /\ result' = ErrorResult("Failed to process image")
            /\ pc' = "result"
            /\ frame_h' = frame_h
       ELSE /\ frame_h' = ResizedHeight(image_bytes)
            /\ pc' = "decoded"
            /\ result' = result
    /\ UNCHANGED <<users, image_bytes, received_user_id, faces,
                   selected, response, detector_out, detector_runs,
                   classifier_calls, history_outcome, storage_fault,
                   store_ops, request_info>>
    /\ UNCHANGED <<storeVars, wsVars, probeVars, apiVars, pureVars, cameraVars>>

\* Mutant of NeedsRelaxed: the relaxed tier runs whatever the strict tier found.
AlwaysRelaxed(fs) == TRUE

\* `if len(faces) == 0:` after the strict run (line 76)
NeedsRelaxed(fs) == Len(fs) = 0

\* detect_emotion lines 67-73: the strict detector run.
DetectStrict ==
    /\ pc = "decoded"
    /\ \E out \in DetectorOutputs(StrictMinSize, frame_h) :
          /\ faces' = out
          /\ detector_out' = Append(detector_out, out)
          /\ detector_runs' = Append(detector_runs, [tier |-> "strict", found |-> Len(out)])
          /\ pc' = IF NeedsRelaxed(out) THEN "strict_done" ELSE "located"
    /\ UNCHANGED <<emotion_classifier, load_attempts, request_info, users, image_bytes, received_user_id, frame_h,
                   selected, result, response, classifier_calls,
                   history_outcome, storage_fault,
                   store_ops>>
    /\ UNCHANGED <<storeVars, wsVars, probeVars, apiVars, pureVars, cameraVars>>

\* Lines 85-92: what `faces` becomes when the relaxed run found nothing.
AfterRelaxed(out, w, h) == IF Len(out) = 0 THEN CenterFallback(w, h) ELSE out

\* detect_emotion lines 76-92: the relaxed detector run and the fallback.
DetectRelaxed ==
    /\ pc = "strict_done"
    /\ \E out \in DetectorOutputs(RelaxedMinSize, frame_h) :
          /\ faces' = AfterRelaxed(out, FrameWidth, frame_h)
          /\ detector_out' = Append(detector_out, out)
          /\ detector_runs' = Append(detector_runs, [tier |-> "relaxed", found |-> Len(out)])
          /\ pc' = "located"
    /\ UNCHANGED <<emotion_classifier, load_attempts, request_info, users, image_bytes, received_user_id, frame_h,
                   selected, result, response, classifier_calls,
                   history_outcome, storage_fault,
                   store_ops>>
    /\ UNCHANGED <<storeVars, wsVars, probeVars, apiVars, pureVars, cameraVars>>

\* detect_emotion lines 95-105 and 149-150: pick the face to classify, or
\* return the empty result when there is none.
Select ==
    /\ pc = "located"
    /\ IF Len(faces) > 0
       THEN /\ faces' = (IF Len(faces) > 1 THEN SortedFaces(faces) ELSE faces)
            /\ selected' = SelectFace(faces)
            /\ pc' = "selected"
            /\ UNCHANGED <<result, frame_h, detector_out>>
       ELSE /\ result' = NoFacesResult
            /\ pc' = "result"
            /\ faces' = <<>>
            /\ frame_h' = NoValue
            /\ detector_out' = <<>>
            /\ selected' = selected
    /\ UNCHANGED <<emotion_classifier, load_attempts, request_info, users, image_bytes, received_user_id, response,
                   detector_runs, classifier_calls, history_outcome, storage_fault,
                   store_ops>>
    /\ UNCHANGED <<storeVars, wsVars, probeVars, apiVars, pureVars, cameraVars>>

\* Mutant of FaceResult: the label depends on whether a call ran before.
FaceResultDrifting(loc, preds) ==
    Result("faces", "1 face(s) detected", loc,
           IF remembered = {} THEN EMOTIONS[ArgMax(preds)] ELSE EMOTIONS[Len(EMOTIONS)],
           MaxOf(preds), preds)

\* Mutant of FaceResult: the label is read one position off the arg-max.
FaceResultShifted(loc, preds) ==
    Result("faces", "1 face(s) detected", loc, EMOTIONS[(ArgMax(preds) % Len(EMOTIONS)) + 1],
           MaxOf(preds), preds)

\* Lines 121-148: the face result built from the probability vector.
FaceResult(loc, preds) ==
    Result("faces", "1 face(s) detected", loc, EMOTIONS[ArgMax(preds)], MaxOf(preds), preds)

\* detect_emotion lines 108-148: crop, resize to 64x64, predict, build the result.
Classify ==
    /\ pc = "selected"
    /\ LET roi == RoiShape(selected, FrameWidth, frame_h) IN
       IF roi.rows <= 0 \/ roi.cols <= 0
       THEN \* cv2.resize raises on an empty crop: except Exception
            /\ result' = ErrorResult("Failed to process image")
            /\ classifier_calls' = classifier_calls
       ELSE \E preds \in PredVectors :
              /\ result' = FaceResult(selected, preds)
              /\ classifier_calls' = classifier_calls + 1
    /\ pc' = "result"
    /\ faces' = <<>>
    /\ selected' = NoRegion
    /\ frame_h' = NoValue
    /\ detector_out' = <<>>
    /\ UNCHANGED <<emotion_classifier, load_attempts, request_info, users, image_bytes, received_user_id, response,
                   detector_runs, history_outcome, storage_fault,
                   store_ops>>
    /\ UNCHANGED <<storeVars, wsVars, probeVars, apiVars, pureVars, cameraVars>>

\* The storage step of update_emotion that can raise.
StorageFaults == {"none", "find", "update"}

\* Handler lines 96-101: an error of detect_emotion becomes an HTTP error.
ErrorStatus(res) == 500

\* Handler lines 96-159: answer the call from the result of detect_emotion.
Respond ==
    /\ pc = "result"
    /\ IF result.kind = "error"
       THEN /\ response' = HttpError(ErrorStatus(result), result.detail)
            /\ pc' = "failed"
            /\ UNCHANGED <<users, history_outcome, storage_fault, store_ops>>
       ELSE IF result.kind = "faces"
       THEN \E fail \in StorageFaults :
              LET d == DispatchHistory(users, received_user_id, result.emotion,
                                       result.confidence, fail) IN
              /\ users' = d.users
              /\ history_outcome' = d.outcome
              /\ storage_fault' = (IF d.outcome = "not_attempted" THEN "none" ELSE fail)
              /\ store_ops' = d.ops
              /\ IF d.propagated
                 THEN /\ response' = HttpError(500, "Error processing request")
                      /\ pc' = "failed"
                 ELSE /\ response' = Response("ok", 200, "Emotion detected successfully",
                                              result.emotion, result.confidence,
                                              d.user_updated)
                      /\ pc' = "returned"
       ELSE /\ response' = Response("ok", 200, "No face detected in the image",
                                    "no_face", 0, FALSE)
            /\ pc' = "returned"
            /\ UNCHANGED <<users, history_outcome, storage_fault, store_ops>>
    /\ UNCHANGED <<emotion_classifier, load_attempts, request_info, image_bytes,
                   received_user_id, frame_h, faces, selected, result, detector_out,
                   detector_runs, classifier_calls>>
    /\ UNCHANGED <<storeVars, wsVars, probeVars, apiVars, pureVars, cameraVars>>

\* The call is over; the server waits for the next request.
ResetCall ==
    /\ pc \in {"returned", "failed"}
    /\ pc' = "idle"
    /\ image_bytes' = EmptyBytes
    /\ received_user_id' = None
    /\ result' = NoResult
    /\ response' = NoResponse
    /\ detector_runs' = <<>>
    /\ classifier_calls' = 0
    /\ history_outcome' = "not_attempted"
    /\ storage_fault' = "none"
    /\ store_ops' = <<>>
    /\ request_info' = NoRequestInfo
    /\ UNCHANGED <<emotion_classifier, load_attempts, users, frame_h, faces, selected,
                   detector_out>>
    /\ UNCHANGED <<storeVars, wsVars, apiVars, pureVars, cameraVars>>

NextCall == ResetCall /\ UNCHANGED probeVars

Next ==
    \/ LoadModel
    \/ Receive
    \/ Decode
    \/ DetectStrict
    \/ DetectRelaxed
    \/ Select
    \/ Classify
    \/ Respond
    \/ NextCall

Spec == Init /\ [][Next]_vars

\* ------------------------------------------- calls with repeated inputs
\* The inputs of the call that is over: its bytes, what the detector runs and
\* the classifier answered; and what the call answered.
CallInputs ==
    [image_bytes |-> image_bytes, detector_runs |-> detector_runs,
     face_location |-> result.face_location, preds |-> result.emotion_probabilities]
CallAnswer ==
    [outcome |-> pc, emotion |-> response.emotion, confidence |-> response.confidence]

\* The bytes, detector answers and classifier answers that are repeated.
RepeatedBytes == {EmptyBytes, JunkBytes, Bytes("image", 300, 150), Bytes("image", 600, 2)}
RepeatedPreds ==
    {NoPreds} \cup {[i \in DOMAIN EMOTIONS |-> IF i \in S THEN MaxProb ELSE 0] :
                       S \in {{1}, {4, 7}}}

RepeatReceive == Receive /\ image_bytes' \in RepeatedBytes
RepeatDetectStrict == DetectStrict /\ Len(faces') <= 1
RepeatDetectRelaxed == DetectRelaxed /\ Len(detector_out'[Len(detector_out')]) <= 1
RepeatClassify == Classify /\ result'.emotion_probabilities \in RepeatedPreds

\* The call is over and is the one remembered from now on.
Remember ==
    /\ ResetCall
    /\ remembered' = {[inputs |-> CallInputs, answer |-> CallAnswer]}

NextRepeat ==
    \/ LoadModel
    \/ RepeatReceive
    \/ Decode
    \/ RepeatDetectStrict
    \/ RepeatDetectRelaxed
    \/ Select
    \/ RepeatClassify
    \/ Respond
    \/ NextCall
    \/ Remember

SpecRepeat == Init /\ [][NextRepeat]_vars

\* ------------------------------------- concurrent calls of update_emotion
\* update_emotion lines 79-87: `await find_one`, `if not user_data: return
\* False`, User.from_dict and add_emotion_history on the local copy; an
\* exception of the store is caught and the call returns False.
UpdateEmotionFind(t) ==
    /\ tasks[t].pc = "idle"
    /\ \E user_id \in UserIds, emotion \in StoredEmotions, fail \in {"none", "find"} :
          tasks' = [tasks EXCEPT ![t] =
                      IF fail = "find" \/ user_id \notin DOMAIN users
                      THEN Task("done", user_id, emotion, NoDoc, FALSE)
                      ELSE Task("found", user_id, emotion, users[user_id], FALSE)]
    /\ UNCHANGED <<emotion_classifier, load_attempts, users, callVars, prior_history,
                   wsVars>>
    /\ UNCHANGED <<probeVars, apiVars, pureVars, cameraVars>>

\* update_emotion lines 90-107: `await update_one` with $set and $push, then
\* `return result.modified_count > 0`; an exception gives False.
UpdateEmotionWrite(t) ==
    /\ tasks[t].pc = "found"
    /\ \E fail \in {"none", "update"} :
          LET me == tasks[t] IN
          IF fail = "update"
          THEN /\ tasks' = [tasks EXCEPT ![t] = Task("done", me.user_id, me.emotion, NoDoc, FALSE)]
               /\ users' = users
          ELSE /\ users' = [users EXCEPT ![me.user_id] =
                               PushEmotion(@, me.user_data, me.emotion)]
               /\ tasks' = [tasks EXCEPT ![t] =
                              Task("done", me.user_id, me.emotion, me.user_data, TRUE)]
    /\ UNCHANGED <<emotion_classifier, load_attempts, callVars, prior_history, wsVars>>
    /\ UNCHANGED <<probeVars, apiVars, pureVars, cameraVars>>

NextStore ==
    \/ \E t \in Tasks : UpdateEmotionFind(t)
    \/ \E t \in Tasks : UpdateEmotionWrite(t)

SpecStore == Init /\ [][NextStore]_vars

\* ------------------------------------------------ the connection manager
\* No call of the manager is suspended at an await.
Quiescent == send.pc = "idle"

\* connect (lines 30-35) on the dict: create the user's set if missing, add
\* the socket.
AfterConnect(d, websocket, user_id) ==
    SetKey(d, user_id, (IF user_id \in DOMAIN d THEN d[user_id] ELSE {}) \cup {websocket})

\* Mutant of AfterDisconnect: the entry of a user is kept when its set is empty.
AfterDisconnectKeepingEntry(d, user_id, websocket) ==
    IF user_id \notin DOMAIN d THEN d
    ELSE SetKey(d, user_id, IF websocket # None THEN d[user_id] \ {websocket} ELSE {})

\* disconnect (lines 46-61) on the dict: discard one socket, or clear the set
\* when no socket is given; delete the user's entry when the set is empty.
AfterDisconnect(d, user_id, websocket) ==
    IF user_id \notin DOMAIN d
    THEN d
    ELSE LET rest == IF websocket # None THEN d[user_id] \ {websocket} ELSE {}
         IN  IF rest = {} THEN DelKey(d, user_id) ELSE SetKey(d, user_id, rest)

\* What a change of the dict does to the loop of a suspended
\* send_personal_message: when the entry of its user is deleted, the set
\* object the loop iterates is empty and no longer in the dict.
SendAfterChange(call, d) ==
    IF call.pc = "sending" /\ call.user_id \notin DOMAIN d
    THEN [call EXCEPT !.detached = TRUE]
    ELSE call

\* websocket_endpoint line 78: `await manager.connect(websocket, user_id)` for
\* a socket that has been accepted and authenticated.
Connect(websocket, user_id) ==
    /\ endpoint[websocket] = None
    /\ \A u \in DOMAIN active_connections : websocket \notin active_connections[u]
    /\ active_connections' = AfterConnect(active_connections, websocket, user_id)
    /\ endpoint' = [endpoint EXCEPT ![websocket] = user_id]
    /\ UNCHANGED <<emotion_classifier, load_attempts, users, callVars, storeVars, send>>
    /\ UNCHANGED <<probeVars, apiVars, pureVars, cameraVars>>

\* A call of manager.disconnect(user_id, websocket) (lines 38-61).
Disconnect(user_id, websocket) ==
    /\ active_connections' = AfterDisconnect(active_connections, user_id, websocket)
    /\ send' = SendAfterChange(send, active_connections')
    /\ UNCHANGED <<emotion_classifier, load_attempts, users, callVars, storeVars, endpoint>>
    /\ UNCHANGED <<probeVars, apiVars, pureVars, cameraVars>>

\* The arguments of `manager.disconnect(user_id)` at websockets.py line 124:
\* the socket is not passed.
EndpointDisconnectArgs(user_id, websocket) == <<user_id, None>>

\* websocket_endpoint lines 121-124: the client of a socket went away
\* (WebSocketDisconnect in the receive loop) and the endpoint calls
\* manager.disconnect.
ClientDisconnects(websocket) ==
    /\ endpoint[websocket] # None
    /\ LET args == EndpointDisconnectArgs(endpoint[websocket], websocket) IN
       active_connections' = AfterDisconnect(active_connections, args[1], args[2])
    /\ send' = SendAfterChange(send, active_connections')
    /\ endpoint' = [endpoint EXCEPT ![websocket] = None]
    /\ UNCHANGED <<emotion_classifier, load_attempts, users, callVars, storeVars>>
    /\ UNCHANGED <<probeVars, apiVars, pureVars, cameraVars>>

\* broadcast (lines 94-126) run without interleaving: every connection is sent
\* the message, those in `failed` raise and are discarded, users left without
\* a connection are deleted after the loop.
Broadcast ==
    /\ Quiescent
    /\ \E failed \in SUBSET Sockets :
          LET left == [u \in DOMAIN active_connections |-> active_connections[u] \ failed]
          IN  active_connections' = [u \in {v \in DOMAIN left : left[v] # {}} |-> left[u]]
    /\ UNCHANGED <<emotion_classifier, load_attempts, users, callVars, storeVars, send,
                   endpoint>>
    /\ UNCHANGED <<probeVars, apiVars, pureVars, cameraVars>>

\* send_personal_message lines 71-81: return for a user without entry, else
\* start the loop over the user's set with an empty `disconnected`, take the
\* first connection and await its send_text.
SendBegin(user_id) ==
    /\ send.pc = "idle"
    /\ IF user_id \notin DOMAIN active_connections
       THEN send' = SendCall("done", user_id, {}, {}, {}, {}, {})
       ELSE \E first \in active_connections[user_id] :
               send' = [SendCall("sending", user_id, active_connections[user_id] \ {first},
                                 {}, active_connections[user_id], {first}, {})
                           EXCEPT !.current = first]

\* A call of send_personal_message begins while nothing else runs.
SendStart(user_id) ==
    /\ SendBegin(user_id)
    /\ UNCHANGED <<emotion_classifier, load_attempts, users, callVars, storeVars,
                   active_connections, endpoint>>
    /\ UNCHANGED <<probeVars, apiVars, pureVars, cameraVars>>

\* Mutant of AfterSend: the loop is left at the first send that raises.
AfterSendStopping(call, connection, raised) ==
    [call EXCEPT !.to_visit = IF raised THEN {} ELSE @ \ {connection},
                 !.attempted = @ \cup {connection},
                 !.disconnected = IF raised THEN @ \cup {connection} ELSE @,
                 !.delivered = IF raised THEN @ ELSE @ \cup {connection}]

\* Lines 79-84, one turn of the loop: `await connection.send_text(...)`; an
\* exception is caught and the connection added to `disconnected`.
AfterSend(call, connection, raised) ==
    [call EXCEPT !.to_visit = @ \ {connection},
                 !.attempted = @ \cup {connection},
                 !.disconnected = IF raised THEN @ \cup {connection} ELSE @,
                 !.delivered = IF raised THEN @ ELSE @ \cup {connection}]

\* The set the loop of line 79 iterates: the object that was the user's entry
\* when the loop began.
IteratedSet == IF send.detached THEN {} ELSE active_connections[send.user_id]

\* next() of a set iterator raises RuntimeError ("Set changed size during
\* iteration") when the size of the set differs from the size it had when the
\* iterator was made.
SetChangedSize == Cardinality(IteratedSet) # send.iter_used

\* Lines 87-88: `for ws in disconnected: ...discard(ws)`
DiscardDisconnected(connections, disconnected) == connections \ disconnected

\* The awaited send_text returns or raises (lines 80-84), then the loop goes
\* on without suspending: next() of the iterator raises RuntimeError outside
\* the try when the set changed size; else the next connection is taken and
\* its send_text awaited; after the last one the failed connections are
\* discarded and the user's entry is deleted when no connection is left
\* (lines 86-92).
SendStep ==
    /\ send.pc = "sending"
    /\ \E raised \in BOOLEAN :
          LET after == AfterSend(send, send.current, raised) IN
          IF SetChangedSize
          THEN /\ send' = [after EXCEPT !.pc = "raised", !.current = None]
               /\ active_connections' = active_connections
          ELSE IF after.to_visit \cap IteratedSet = {}
          THEN /\ LET rest == DiscardDisconnected(active_connections[send.user_id],
                                                 after.disconnected)
                  IN  active_connections' =
                         IF rest = {} THEN DelKey(active_connections, send.user_id)
                         ELSE SetKey(active_connections, send.user_id, rest)
               /\ send' = [after EXCEPT !.pc = "done", !.current = None, !.to_visit = {}]
          ELSE /\ \E connection \in after.to_visit \cap IteratedSet :
                     send' = [after EXCEPT !.current = connection,
                                           !.to_visit = @ \ {connection},
                                           !.attempted = @ \cup {connection}]
               /\ active_connections' = active_connections
    /\ UNCHANGED <<emotion_classifier, load_attempts, users, callVars, storeVars, endpoint>>
    /\ UNCHANGED <<probeVars, apiVars, pureVars, cameraVars>>

\* send_personal_message has returned to its caller, or raised.
SendReturn ==
    /\ send.pc \in {"done", "raised"}
    /\ send' = NoSend
    /\ UNCHANGED <<emotion_classifier, load_attempts, users, callVars, storeVars,
                   active_connections, endpoint>>
    /\ UNCHANGED <<probeVars, apiVars, pureVars, cameraVars>>

\* The operations of the manager one after the other: a connect or disconnect
\* runs only while no send is suspended.
SeqConnect(websocket, user_id) == Quiescent /\ Connect(websocket, user_id)
SeqDisconnect(user_id, websocket) == Quiescent /\ Disconnect(user_id, websocket)
SeqClientDisconnects(websocket) == Quiescent /\ ClientDisconnects(websocket)

NextWs ==
    \/ \E ws \in Sockets, u \in WsUsers : SeqConnect(ws, u)
    \/ \E u \in WsUsers, ws \in Sockets \cup {None} : SeqDisconnect(u, ws)
    \/ \E ws \in Sockets : SeqClientDisconnects(ws)
    \/ Broadcast
    \/ \E u \in WsUsers : SendStart(u)
    \/ SendStep
    \/ SendReturn

SpecWs == Init /\ [][NextWs]_vars

\* The endpoints and a send interleaved: a connect or a disconnect may run
\* while send_personal_message is suspended at `await connection.send_text`.
NextWsConcurrent ==
    \/ \E ws \in Sockets, u \in WsUsers : Connect(ws, u)
    \/ \E ws \in Sockets : ClientDisconnects(ws)
    \/ \E u \in WsUsers : SendStart(u)
    \/ SendStep
    \/ SendReturn

SpecWsConcurrent == Init /\ [][NextWsConcurrent]_vars

\* ------------------------------------------------------------------ claims
CallOver == pc \in {"returned", "failed"}
TierFound == \E i \in DOMAIN detector_runs : detector_runs[i].found > 0
BothTiersEmpty ==
    /\ Len(detector_runs) = 2
    /\ \A i \in DOMAIN detector_runs : detector_runs[i].found = 0
Area(r) == r.w * r.h
\* the list the detector returned last: the candidates of the selector when a
\* tier found a region
LastDetected == detector_out[Len(detector_out)]
HistoryAttempted == history_outcome # "not_attempted"
MappedLabels == {"happy", "sad", "angry", "surprised", "neutral"}

\* C1: a call whose image decodes answers "no_face" (confidence 0.0) if and
\* only if both the strict and the relaxed tier returned zero regions; a call in
\* which no tier found a region never reports an emotion label.
C1_NoFaceIffNoRegion ==
    pc = "returned" =>
        ((response.emotion = "no_face" /\ response.confidence = 0) <=> BothTiersEmpty)

\* C2: the classifier is invoked at most once per call, and exactly once if and
\* only if a detection tier found a region; never when both tiers returned
\* zero regions nor when the image failed to decode.
C2_ClassifierIffFaceFound ==
    /\ classifier_calls <= 1
    /\ CallOver => (classifier_calls = 1 <=> TierFound)

\* C3: the strict tier runs first, the relaxed tier runs only after the strict
\* tier returned zero regions, the detector runs at most twice, and the list
\* handed to the selector is exactly the output of the first tier that
\* returned a non-empty list.
C3_StrictThenRelaxed ==
    /\ Len(detector_runs) <= 2
    /\ Len(detector_runs) >= 1 => detector_runs[1].tier = "strict"
    /\ Len(detector_runs) = 2 =>
          detector_runs[2].tier = "relaxed" /\ detector_runs[1].found = 0
    /\ (pc = "located" /\ TierFound) =>
          /\ faces = LastDetected
          /\ \A i \in 1..(Len(detector_out) - 1) : detector_out[i] = <<>>

C3_RelaxedTierUsed ==
    /\ pc = "located"
    /\ Len(detector_out) = 2
    /\ detector_out[1] = <<>>
    /\ Len(detector_out[2]) = 2
    /\ faces = detector_out[2]

\* C4: the region selected for classification has width*height greater than or
\* equal to that of every candidate of the list.
C4_SelectedHasMaxArea ==
    pc = "selected" => \A i \in 1..Len(faces) : Area(faces[i]) <= Area(selected)

\* C5: when several candidates share the maximal width*height, the selected
\* region is the one that comes first in the detector's output order.
C5_TieGoesToFirstDetected ==
    (/\ pc = "selected" /\ TierFound
     /\ \E i, j \in 1..Len(LastDetected) :
           /\ i # j
           /\ Area(LastDetected[i]) = Area(LastDetected[j])
           /\ \A k \in 1..Len(LastDetected) : Area(LastDetected[k]) <= Area(LastDetected[i]))
    =>  LET best == CHOOSE i \in 1..Len(LastDetected) :
                      /\ \A j \in 1..Len(LastDetected) :
                            Area(LastDetected[j]) <= Area(LastDetected[i])
                      /\ \A j \in 1..(i - 1) : Area(LastDetected[j]) < Area(LastDetected[i])
        IN selected = LastDetected[best]

\* C6: a detect call with an identity of the store and a label of the
\* identity subsystem's enumeration appends exactly one entry to that
\* identity's history and leaves the earlier entries as they were.
C6_AppendsOneEntry ==
    [][(/\ pc = "result" /\ pc' = "returned"
        /\ result.kind = "faces"
        /\ received_user_id \in DOMAIN users
        /\ result.emotion \in MappedLabels
        /\ storage_fault' = "none")
       => LET old == users[received_user_id].emotionHistory
              new == users'[received_user_id].emotionHistory
          IN /\ Len(new) = Len(old) + 1
             /\ SubSeq(new, 1, Len(old)) = old]_vars

\* C7: a failed history write (identity not found, storage error, exception of
\* the update call) leaves the call a success: status 200, emotion and
\* confidence as the classifier computed them, the updated flag false.
C7_FailedWriteKeepsSuccess ==
    (CallOver /\ history_outcome \in {"raised", "false"}) =>
        /\ pc = "returned"
        /\ response.status = 200
        /\ response.emotion = result.emotion
        /\ response.confidence = result.confidence
        /\ response.user_updated = FALSE

C7_WriteFailedCallReturned ==
    /\ pc = "returned"
    /\ history_outcome = "raised"
    /\ received_user_id = "ghost"
    /\ response.status = 200
    /\ response.emotion = "sad"
    /\ response.user_updated = FALSE

\* C8: with an identity, a history append is attempted for every label whose
\* upper-cased name is a member of the enumeration (happy, sad, angry,
\* surprised, neutral) and skipped only for the others (disgust, scared).
C8_MappedLabelsAttempted ==
    (pc = "returned" /\ received_user_id # None /\ result.kind = "faces") =>
        (HistoryAttempted <=> result.emotion \in MappedLabels)

\* C9: the history write is attempted only with an identity and a label other
\* than "no_face"; without an identity, or with "no_face", the call makes no
\* operation on the identity store.
C9_WriteOnlyWithIdentityAndFace ==
    /\ HistoryAttempted =>
          /\ received_user_id # None
          /\ response.emotion # "no_face"
          /\ result.kind = "faces"
    /\ (received_user_id = None \/ response.emotion = "no_face") =>
          /\ ~HistoryAttempted
          /\ store_ops = <<>>
          /\ \A step \in {"find", "update"} : storage_fault # step

C9_WriteAttempted ==
    /\ pc = "returned"
    /\ HistoryAttempted
    /\ received_user_id = "u1"
    /\ response.emotion = "neutral"

\* C10: bytes that are present but decode to no image fail the call with a
\* client error (4xx), and neither the detector nor the classifier runs.
C10_UndecodableIsClientError ==
    (/\ CallOver
     /\ ~IsFalsyBytes(image_bytes) /\ ~Decodes(image_bytes)
     /\ emotion_classifier # None) =>
        /\ pc = "failed"
        /\ response.status \in 400..499
        /\ detector_runs = <<>>
        /\ classifier_calls = 0

\* C11: a JSON request whose "image" holds malformed base64 (bad padding, or
\* characters outside the alphabet) ends in a failure reported to the caller,
\* and the classifier is not invoked on that call.
C11_MalformedBase64Fails ==
    (/\ CallOver
     /\ request_info.b64 \in {"badpad", "stray"}
     /\ emotion_classifier # None) =>
        /\ pc = "failed"
        /\ classifier_calls = 0

\* C13: the bytes of a call come from the highest-priority input form that
\* carries bytes (upload, else the base64 "image" of a JSON body, else the raw
\* body), and the bytes of a JSON body are never themselves taken as the image.
C13_OneFormInPriorityOrder ==
    LET form == IF request_info.source \in {"image", "file"} THEN "upload"
                ELSE request_info.source
    IN  /\ request_info.source # "none" =>
              /\ form = "json" => "upload" \notin request_info.forms
              /\ form = "raw" => request_info.forms \cap {"upload", "json"} = {}
        /\ request_info.b64 # "none" => request_info.source # "raw"

\* C14: a call none of whose input forms carries bytes is rejected with the
\* client error "No image data found in request" before the decoder, the
\* detector or the classifier is invoked.
C14_NoBytesIsNoImageData ==
    (/\ CallOver
     /\ request_info.forms = {}
     /\ request_info.b64 \notin {"badpad", "nodict"}) =>
        /\ pc = "failed"
        /\ response.status = 400
        /\ response.message = "No image data found in request"
        /\ result = NoResult
        /\ detector_runs = <<>>
        /\ classifier_calls = 0

\* C12: when the model failed to load at process start, every call that
\* reaches detect_emotion fails with "Emotion detection model not loaded" as a
\* server error without running the detector or the classifier, no call loads
\* the model again, and load_model has been attempted exactly once however
\* many calls were served.
C12_UnavailableShortCircuits ==
    /\ pc # "starting" => load_attempts = 1
    /\ (emotion_classifier = None /\ result # NoResult) =>
          /\ result = ErrorResult("Emotion detection model not loaded")
          /\ detector_runs = <<>>
          /\ classifier_calls = 0
          /\ CallOver =>
                /\ pc = "failed"
                /\ response = HttpError(500, "Emotion detection model not loaded")

C12_UnavailableCallFailed ==
    /\ emotion_classifier = None
    /\ load_attempts = 1
    /\ pc = "failed"
    /\ image_bytes = Bytes("image", 300, 150)
    /\ response = HttpError(500, "Emotion detection model not loaded")

\* C15: whenever a face is classified, the reported confidence is the largest
\* entry of the probability vector and the reported emotion is the label at
\* a position of that largest entry in the fixed order angry, disgust, scared,
\* happy, sad, surprised, neutral.
C15_ConfidenceIsMaxLabelIsArgMax ==
    LET labels == <<"angry", "disgust", "scared", "happy", "sad", "surprised", "neutral">>
        p == result.emotion_probabilities
    IN  result.kind = "faces" =>
           /\ Len(p) = Len(labels)
           /\ \A i \in DOMAIN p : p[i] <= result.confidence
           /\ \E i \in DOMAIN p : p[i] = result.confidence /\ labels[i] = result.emotion
           /\ pc = "returned" =>
                 /\ response.emotion = result.emotion
                 /\ response.confidence = result.confidence

C15_HappyReportedOnTie ==
    /\ pc = "returned"
    /\ result.kind = "faces"
    /\ result.emotion_probabilities[4] = MaxProb
    /\ result.emotion_probabilities[7] = MaxProb
    /\ response.emotion = "happy"
    /\ response.confidence = MaxProb

\* C16: a call fails only before detection (from Received or Decoded, on a
\* decode error or an unavailable classifier); once a detector run has been
\* made the call does not fail, and once a tier has found a face the call
\* reaches Returned.
C16_FailedOnlyBeforeDetection ==
    /\ pc = "failed" => detector_runs = <<>>
    /\ (CallOver /\ TierFound) => pc = "returned"

\* C17: the answer of a call in which a face was located and classified
\* carries the region's coordinates, the per-label probability distribution
\* and the face-detected mark, in addition to emotion, confidence, timestamp.
C17_ResponseCarriesRegionAndDistribution ==
    (pc = "returned" /\ result.kind = "faces") =>
        {"emotion", "confidence", "timestamp",
         "face_detected", "face_location", "all_emotions"} \subseteq ResponseKeys(response)

\* C18: concurrent appends for one identity each add exactly one entry and
\* none is lost or overwritten: the history is the prior entries followed by
\* one entry for each call that has returned True, in some order.
Succeeded(u) == {t \in Tasks : tasks[t].pc = "done" /\ tasks[t].value /\ tasks[t].user_id = u}
C18_ConcurrentAppendsAllKept ==
    \A u \in StoredUsers :
        LET hist == users[u].emotionHistory
            prior == prior_history[u]
            n == Cardinality(Succeeded(u))
        IN  /\ Len(hist) = Len(prior) + n
            /\ SubSeq(hist, 1, Len(prior)) = prior
            /\ \E order \in [1..n -> Succeeded(u)] :
                  /\ \A i, j \in 1..n : i # j => order[i] # order[j]
                  /\ \A i \in 1..n : hist[Len(prior) + i] = tasks[order[i]].emotion

\* two calls that overlapped (both had read the document before either wrote)
\* have both returned True and both entries are in the history
C18_TwoOverlappingAppendsKept ==
    /\ Cardinality(Succeeded("u1")) = 2
    /\ \A t \in Succeeded("u1") : tasks[t].user_data.emotionHistory = <<Emotion.SAD>>
    /\ prior_history["u1"] = <<Emotion.SAD>>
    /\ users["u1"].emotionHistory = <<Emotion.SAD, Emotion.HAPPY, Emotion.SAD>>

\* C20: send_personal_message attempts delivery to every connection that is
\* registered for the user; a connection whose send raised is removed from
\* the registry, the user's other connections were sent the message and stay
\* registered.
C20_FailedSendsRemovedOthersKept ==
    (send.pc = "done" /\ send.registered # {}) =>
        LET kept == send.registered \ send.disconnected IN
        /\ send.attempted = send.registered
        /\ send.delivered = kept
        /\ \A u \in DOMAIN active_connections :
              active_connections[u] \cap send.disconnected = {}
        /\ IF kept = {}
           THEN send.user_id \notin DOMAIN active_connections
           ELSE /\ send.user_id \in DOMAIN active_connections
                /\ active_connections[send.user_id] = kept

C20_OneSendRaisedOneDelivered ==
    /\ send.pc = "done"
    /\ send.user_id = "u1"
    /\ send.registered = {"w1", "w2"}
    /\ send.disconnected = {"w1"}
    /\ send.delivered = {"w2"}
    /\ active_connections["u1"] = {"w2"}

C21_NoEmptyEntry ==
    /\ \A u \in DOMAIN active_connections : active_connections[u] # {}
    /\ DOMAIN active_connections =
          {u \in WsUsers : \E ws \in Sockets :
                              u \in DOMAIN active_connections /\ ws \in active_connections[u]}

C21_EntryDeletedOthersKept ==
    /\ Quiescent
    /\ DOMAIN active_connections = {"u2"}
    /\ endpoint["w1"] = "u1"
    /\ endpoint["w2"] = None
    /\ active_connections["u2"] = {"w3"}

\* C22: when one of several connections of a user disconnects, only that
\* connection leaves the registry; the user's other connections stay
\* registered.
C22_OnlyTheClosedSocketLeaves ==
    [][\A ws \in Sockets :
          (endpoint[ws] # None /\ endpoint'[ws] = None) =>
              \A u \in DOMAIN active_connections :
                 \A other \in active_connections[u] \ {ws} :
                    u \in DOMAIN active_connections' /\ other \in active_connections'[u]]_vars

\* C23: a send that is suspended at an await while a connect or disconnect
\* for the same user runs still completes without error.
C23_SendNeverRaises == send.pc # "raised"

\* --------------------------------------------- the users and emotions routes
\* The role of each account (the `role` field of the stored users).
Accounts == [u1 |-> "employee", a1 |-> "admin"]

\* The user ids a path parameter may carry: the accounts and an unknown id.
PathUserIds == DOMAIN Accounts \cup {"ghost"}

\* Field(ge=1, le=10) of EmotionBase.intensity
MinIntensity == 1
MaxIntensity == 10

\* The intensities a client may post.
PostedIntensities == {0, 1, 5, 10, 11}

\* A call of `route` by the authenticated user `caller`.
ApiCall(route, caller) == [NoApiCall EXCEPT !.route = route, !.caller = caller]

\* The call has its JSON response.
Answered(call, status, message) ==
    [call EXCEPT !.pc = "answered", !.status = status, !.message = message]

\* Mutant of PatchAfterUpdate: the result of update_emotion is not looked at.
PatchAfterUpdateUnchecked(call, success) ==
    [call EXCEPT !.pc = "updated", !.success = success]

\* update_current_emotion lines 138-146: `if not success:` answer 500
\* "Failed to update emotion", else go on to the broadcast.
PatchAfterUpdate(call, success) ==
    IF success
    THEN [call EXCEPT !.pc = "updated", !.success = TRUE]
    ELSE Answered([call EXCEPT !.success = FALSE], 500, "Failed to update emotion")

\* PATCH /users/me/emotion, lines 134-136: the validated emotion is stored with
\* `await UserService.update_emotion(current_user.id, emotion_enum.value)`.
PatchUpdate ==
    /\ api.pc = "idle"
    /\ \E caller \in StoredUsers, emotion \in StoredEmotions,
          fail \in {"none", "find", "update"} :
          /\ Len(users[caller].emotionHistory) < MaxHistory
          /\ LET r == UpdateEmotion(users, caller, emotion, fail) IN
             /\ users' = r.users
             /\ api' = PatchAfterUpdate([ApiCall("patch_emotion", caller)
                                            EXCEPT !.emotion = emotion, !.fault = fail],
                                        r.value)
    /\ UNCHANGED <<emotion_classifier, load_attempts, callVars, storeVars, wsVars>>
    /\ UNCHANGED <<probeVars, emotion_records, pureVars, cameraVars>>

\* Lines 148-154: `await manager.broadcast_emotion_update(current_user.id, ...)`,
\* which calls send_personal_message for the user (websocket_manager.py
\* lines 128-144).
PatchBroadcast ==
    /\ api.pc = "updated"
    /\ SendBegin(api.caller)
    /\ api' = [api EXCEPT !.pc = "broadcasting", !.broadcast = TRUE]
    /\ UNCHANGED <<emotion_classifier, load_attempts, users, callVars, storeVars,
                   active_connections, endpoint>>
    /\ UNCHANGED <<probeVars, emotion_records, pureVars, cameraVars>>

\* Lines 156-190: the broadcast returned or raised; an exception is answered
\* 500 by the outer handler, a user that find_by_id does not return 404, else
\* 200.
PatchAnswer ==
    /\ api.pc = "broadcasting"
    /\ send.pc \in {"done", "raised"}
    /\ \E found \in BOOLEAN :
          api' = LET call == [api EXCEPT !.delivered = send.delivered] IN
                 IF send.pc = "raised"
                 THEN Answered(call, 500, "Error updating emotion")
                 ELSE IF ~found
                 THEN Answered(call, 404, "User not found after update")
                 ELSE Answered(call, 200, "Current emotion updated successfully")
    /\ send' = NoSend
    /\ UNCHANGED <<emotion_classifier, load_attempts, users, callVars, storeVars,
                   active_connections, endpoint>>
    /\ UNCHANGED <<probeVars, emotion_records, pureVars, cameraVars>>

\* `emotion.emotion_type.upper()` (emotions.py line 106): emotion_type is a
\* member of the int Enum of schemas/user.py, which has no attribute `upper`.
UpperOfMember(member) == [raised |-> "AttributeError", value |-> NoValue]

\* `except (KeyError, ValueError)` of line 108
CaughtAfterInsert == {"KeyError", "ValueError"}

\* An emotion document (lines 91-97).
EmotionDoc(user_id, emotion_type, intensity) ==
    [userId |-> user_id, emotionType |-> emotion_type, intensity |-> intensity]

\* POST /emotions (lines 72-137). A body whose intensity is outside the Field
\* bounds is answered 422 by the validation before the handler runs. The
\* handler inserts the document, then maps emotion_type with .upper(): an
\* exception outside CaughtAfterInsert reaches the outer handler, which answers
\* 500; without one update_emotion is awaited and 201 is answered.
\* `fail` is the storage step that raises ("none", "insert", "find", "update").
CreateEmotion ==
    /\ api.pc = "idle"
    /\ Len(emotion_records) < MaxRecords
    /\ \E caller \in StoredUsers, emotion_type \in StoredEmotions,
          intensity \in PostedIntensities,
          fail \in {"none", "insert", "find", "update"} :
          LET call == [ApiCall("create_emotion", caller)
                          EXCEPT !.emotion = emotion_type, !.intensity = intensity,
                                 !.fault = fail]
              upper == UpperOfMember(emotion_type)
          IN
          IF intensity < MinIntensity \/ intensity > MaxIntensity
          THEN /\ api' = Answered(call, 422, "validation error")
               /\ UNCHANGED <<emotion_records, users>>
          ELSE IF fail = "insert"
          THEN /\ api' = Answered(call, 500, "Error creating emotion")
               /\ UNCHANGED <<emotion_records, users>>
          ELSE /\ emotion_records' =
                     Append(emotion_records, EmotionDoc(caller, emotion_type, intensity))
               /\ IF upper.raised # None /\ upper.raised \notin CaughtAfterInsert
                  THEN /\ api' = Answered([call EXCEPT !.inserted = 1], 500,
                                          "Error creating emotion")
                       /\ users' = users
                  ELSE IF upper.raised # None
                  THEN /\ api' = Answered([call EXCEPT !.inserted = 1], 201,
                                          "Emotion recorded successfully")
                       /\ users' = users
                  ELSE LET r == UpdateEmotion(users, caller, upper.value, fail) IN
                       /\ api' = Answered([call EXCEPT !.inserted = 1,
                                                       !.success = r.value],
                                          201, "Emotion recorded successfully")
                       /\ users' = r.users
    /\ UNCHANGED <<emotion_classifier, load_attempts, callVars, storeVars, wsVars>>
    /\ UNCHANGED <<probeVars, pureVars, cameraVars>>

\* GET /users/{user_id} (lines 59-123): 403 unless the path id is the
\* caller's own id, then find_by_id: 404 when it returns None (no such user,
\* or the store raised), else 200 with the profile.
ReadUser ==
    /\ api.pc = "idle"
    /\ \E caller \in DOMAIN Accounts, user_id \in PathUserIds, fail \in {"none", "find"} :
          LET call == [ApiCall("read_user", caller)
                          EXCEPT !.target = user_id, !.fault = fail]
          IN  api' = IF user_id # caller
                     THEN Answered(call, 403, "Not authorized to access this user")
                     ELSE IF fail = "find" \/ user_id \notin DOMAIN Accounts
                     THEN Answered(call, 404, "User not found")
                     ELSE Answered(call, 200, "User profile retrieved successfully")
    /\ UNCHANGED <<emotion_classifier, load_attempts, users, callVars, storeVars, wsVars>>
    /\ UNCHANGED <<probeVars, emotion_records, pureVars, cameraVars>>

\* The response has been sent; the next request is served.
ApiReturn ==
    /\ api.pc = "answered"
    /\ api' = NoApiCall
    /\ UNCHANGED <<emotion_classifier, load_attempts, users, callVars, storeVars, wsVars>>
    /\ UNCHANGED <<probeVars, emotion_records, pureVars, cameraVars>>

\* The routes served one request at a time, with the WebSocket endpoints of
\* the stored users running beside them.
NextApi ==
    \/ \E ws \in Sockets, u \in StoredUsers : Connect(ws, u)
    \/ \E ws \in Sockets : ClientDisconnects(ws)
    \/ PatchUpdate
    \/ PatchBroadcast
    \/ SendStep
    \/ PatchAnswer
    \/ CreateEmotion
    \/ ReadUser
    \/ ApiReturn

SpecApi == Init /\ [][NextApi]_vars

\* C24: PATCH /users/me/emotion broadcasts only after the store update of the
\* emotion succeeded (the stored current emotion is then the one sent), and a
\* failed update is answered 500 with no broadcast; no message is sent for a
\* call that did not reach the broadcast.
C24_BroadcastOnlyAfterStoredUpdate ==
    /\ send.pc # "idle" => (api.route = "patch_emotion" /\ api.broadcast)
    /\ api.route = "patch_emotion" =>
          /\ api.broadcast =>
                (api.success /\ users[api.caller].currentEmotion = api.emotion)
          /\ (api.pc = "answered" /\ ~api.success) =>
                (api.status = 500 /\ ~api.broadcast /\ api.delivered = {})

\* C24 witness: an update was stored and its broadcast reached a connection.
C24_UpdateStoredThenDelivered ==
    /\ api.route = "patch_emotion" /\ api.pc = "answered"
    /\ api.success /\ api.broadcast /\ api.delivered # {}

\* C25: POST /emotions with an intensity from 1 to 10 (and a store that takes
\* the insert) inserts exactly one record and answers 201, and an answer other
\* than 201 means that no record was inserted.
C25_ValidPostInsertsOneAnswers201 ==
    (api.route = "create_emotion" /\ api.pc = "answered") =>
        /\ (api.intensity \in MinIntensity..MaxIntensity /\ api.fault # "insert") =>
              (api.inserted = 1 /\ api.status = 201)
        /\ api.status # 201 => api.inserted = 0

\* C30: GET /users/{user_id} is for administrators: an admin gets the profile
\* of any existing user, a caller without the admin role is answered 403.
C30_ReadUserAdminOnly ==
    (api.route = "read_user" /\ api.pc = "answered") =>
        /\ (Accounts[api.caller] = "admin" /\ api.target \in DOMAIN Accounts
              /\ api.fault = "none") => api.status = 200
        /\ Accounts[api.caller] # "admin" => api.status = 403

\* ------------------------------------------------- stored values to Emotion
Digits == [c \in {"0", "1", "2", "3", "4", "5", "6", "7", "8", "9"} |->
             CASE c = "0" -> 0 [] c = "1" -> 1 [] c = "2" -> 2 [] c = "3" -> 3
               [] c = "4" -> 4 [] c = "5" -> 5 [] c = "6" -> 6 [] c = "7" -> 7
               [] c = "8" -> 8 [] c = "9" -> 9]

\* str.isdigit(): not empty and every character a digit
IsDigit(text) == Len(text) > 0 /\ \A i \in DOMAIN text : text[i] \in DOMAIN Digits

\* int() of a string of digits
RECURSIVE IntOf(_)
IntOf(text) ==
    IF text = <<>> THEN 0
    ELSE 10 * IntOf(SubSeq(text, 1, Len(text) - 1)) + Digits[text[Len(text)]]

\* The values of the members of Emotion.
EmotionValues == {Emotion[k] : k \in DOMAIN Emotion}

\* Emotion(n): the member with value n, ValueError when there is none.
EmotionOf(n) ==
    IF n \in EmotionValues THEN [raised |-> FALSE, emotion |-> n]
    ELSE [raised |-> TRUE, emotion |-> NoValue]

\* User.from_dict lines 82-88: data.get("currentEmotion", NEUTRAL.value); an
\* int (a bool is one) or a string of digits goes through Emotion(int(...)),
\* every other value gives NEUTRAL.
FromDictEmotion(raw) ==
    LET emotion_value == IF raw.type = "missing"
                         THEN Raw("int", Emotion.NEUTRAL, <<>>) ELSE raw
    IN  IF emotion_value.type \in {"int", "bool"}
        THEN EmotionOf(emotion_value.value)
        ELSE IF emotion_value.type = "str" /\ IsDigit(emotion_value.text)
        THEN EmotionOf(IntOf(emotion_value.text))
        ELSE [raised |-> FALSE, emotion |-> Emotion.NEUTRAL]

\* The characters a stored string is made of, and the strings.
StoredChars == {"0", "4", "7", "-", "a"}
StoredTexts == UNION {[1..n -> StoredChars] : n \in 0..MaxText}

\* The currentEmotion values a stored document may carry.
StoredCurrentEmotions ==
    {Raw("missing", 0, <<>>), Raw("none", 0, <<>>), Raw("float", 0, <<>>)}
    \cup {Raw("int", n, <<>>) : n \in (0 - 1)..MaxCode}
    \cup {Raw("bool", n, <<>>) : n \in {0, 1}}
    \cup {Raw("str", 0, t) : t \in StoredTexts}

\* User.from_dict is applied to a stored document.
ApplyFromDict ==
    /\ \E raw \in StoredCurrentEmotions :
          LET out == FromDictEmotion(raw) IN
          applied' = [NothingApplied EXCEPT !.fn = "from_dict", !.raw = raw,
                                            !.raised = out.raised,
                                            !.emotion = out.emotion]
    /\ UNCHANGED <<emotion_classifier, load_attempts, users, callVars, storeVars, wsVars>>
    /\ UNCHANGED <<probeVars, apiVars, cameraVars>>

\* The fallback of detect_emotion (lines 85-92) on a gray frame of shape (h, w)
\* in which neither tier found a face.
ApplyCenterFallback ==
    /\ \E w \in 1..MaxDim, h \in 1..MaxDim :
          applied' = [NothingApplied EXCEPT !.fn = "center_fallback", !.w = w, !.h = h,
                                            !.region = CenterFallback(w, h)]
    /\ UNCHANGED <<emotion_classifier, load_attempts, users, callVars, storeVars, wsVars>>
    /\ UNCHANGED <<probeVars, apiVars, cameraVars>>

NextPure ==
    \/ ApplyFromDict
    \/ ApplyCenterFallback

SpecPure == Init /\ [][NextPure]_vars

\* The stored value is a valid numeric code: an int or a string of digits
\* whose number is the value of a member.
ValidCode(raw) ==
    \/ raw.type = "int" /\ raw.value \in EmotionValues
    \/ raw.type = "str" /\ IsDigit(raw.text) /\ IntOf(raw.text) \in EmotionValues
CodeOf(raw) == IF raw.type = "int" THEN raw.value ELSE IntOf(raw.text)

\* C26: User.from_dict turns every stored currentEmotion into an Emotion
\* without raising: a valid numeric code gives its member, every other value
\* (missing, out of range, not a number) gives NEUTRAL.
C26_EveryStoredValueParsed ==
    applied.fn = "from_dict" =>
        /\ ~applied.raised
        /\ ValidCode(applied.raw) => applied.emotion = CodeOf(applied.raw)
        /\ (~ValidCode(applied.raw) /\ applied.raw.type # "bool") =>
              applied.emotion = Emotion.NEUTRAL

\* C28: the region synthesized for a frame of width w and height h lies in the
\* frame (non-negative, x+width <= w, y+height <= h) and has a non-zero area
\* when w >= 2 and h >= 2.
C28_FallbackRegionInsideFrame ==
    applied.fn = "center_fallback" =>
        LET r == applied.region[1] IN
        /\ Len(applied.region) = 1
        /\ r.x >= 0 /\ r.y >= 0 /\ r.w >= 0 /\ r.h >= 0
        /\ r.x + r.w <= applied.w
        /\ r.y + r.h <= applied.h
        /\ (applied.w >= 2 /\ applied.h >= 2) => r.w * r.h > 0

\* C28 witness: an odd-sized frame got a region of non-zero area.
C28_OddFrameGotRegion ==
    /\ applied.fn = "center_fallback" /\ applied.w = 7 /\ applied.h = 5
    /\ applied.region = <<Region(1, 1, 3, 2)>>

\* C27: once update_emotion calls on a user have succeeded, interleaved or
\* not, the stored currentEmotion is the emotion of the last entry of the
\* user's emotionHistory.
C27_CurrentEmotionIsLastEntry ==
    \A u \in DOMAIN users :
        Succeeded(u) # {} =>
            /\ users[u].emotionHistory # <<>>
            /\ users[u].currentEmotion =
                  users[u].emotionHistory[Len(users[u].emotionHistory)]

\* C27 witness: two calls with different emotions both read the user before
\* either wrote, both succeeded, and the current emotion is the last entry.
C27_InterleavedUpdatesAgree ==
    \E t1, t2 \in Tasks :
        /\ t1 # t2 /\ t1 \in Succeeded("u1") /\ t2 \in Succeeded("u1")
        /\ tasks[t1].emotion # tasks[t2].emotion
        /\ tasks[t1].user_data.emotionHistory = prior_history["u1"]
        /\ tasks[t2].user_data.emotionHistory = prior_history["u1"]
        /\ users["u1"].currentEmotion =
              users["u1"].emotionHistory[Len(users["u1"].emotionHistory)]

\* ------------------------------------------------------- the camera client
\* What a request of analyze_frame may do: answer 200, answer another status,
\* or raise (connection error, timeout).
RequestOutcomes == {"ok", "error_status", "raised"}

\* analyze_frame (lines 17-43): the JSON of a 200 answer; None for another
\* status and, the exception being caught, for a request that raised.
AnalyzeFrame(outcome) == IF outcome = "ok" THEN "json" ELSE None

\* A thread running analyze_in_background.
Thread(at, outcome, analysed) == [pc |-> at, outcome |-> outcome, result |-> analysed]

\* Mutant of StartsAnalysis: the in-progress flag is not looked at.
StartsAnalysisIgnoringFlag(current_time, last_analysis_time, analysis_in_progress) ==
    current_time - last_analysis_time >= AnalysisInterval

\* The condition of line 226.
StartsAnalysis(current_time, last_analysis_time, analysis_in_progress) ==
    (current_time - last_analysis_time >= AnalysisInterval) /\ ~analysis_in_progress

\* Time passes.
Tick ==
    /\ camera.now < MaxTime
    /\ camera' = [camera EXCEPT !.now = @ + 1]
    /\ UNCHANGED <<emotion_classifier, load_attempts, users, callVars, storeVars, wsVars>>
    /\ UNCHANGED <<probeVars, apiVars, pureVars>>

\* A turn of the main loop in which the condition of line 226 holds (lines
\* 225-236): the start time and the flag are set and the thread is started.
StartAnalysis ==
    /\ StartsAnalysis(camera.now, camera.last_analysis_time, camera.analysis_in_progress)
    /\ camera' = [camera EXCEPT !.previous_start = camera.last_analysis_time,
                                !.last_analysis_time = camera.now,
                                !.analysis_in_progress = TRUE,
                                !.threads = Append(@, Thread("requesting", None, None))]
    /\ UNCHANGED <<emotion_classifier, load_attempts, users, callVars, storeVars, wsVars>>
    /\ UNCHANGED <<probeVars, apiVars, pureVars>>

\* Line 208 in thread i: `result = analyze_frame(frame, args.url)`.
ThreadRequest(i) ==
    /\ i \in DOMAIN camera.threads
    /\ camera.threads[i].pc = "requesting"
    /\ \E outcome \in RequestOutcomes :
          camera' = [camera EXCEPT !.threads[i] =
                                      Thread("analysed", outcome, AnalyzeFrame(outcome))]
    /\ UNCHANGED <<emotion_classifier, load_attempts, users, callVars, storeVars, wsVars>>
    /\ UNCHANGED <<probeVars, apiVars, pureVars>>

\* Line 209 in thread i: `current_result = result`.
ThreadStore(i) ==
    /\ i \in DOMAIN camera.threads
    /\ camera.threads[i].pc = "analysed"
    /\ camera' = [camera EXCEPT !.current_result = camera.threads[i].result,
                                !.threads[i].pc = "stored"]
    /\ UNCHANGED <<emotion_classifier, load_attempts, users, callVars, storeVars, wsVars>>
    /\ UNCHANGED <<probeVars, apiVars, pureVars>>

\* Line 210 in thread i: `analysis_in_progress = False`, and the thread ends.
ThreadReset(i) ==
    /\ i \in DOMAIN camera.threads
    /\ camera.threads[i].pc = "stored"
    /\ camera' = [camera EXCEPT !.analysis_in_progress = FALSE,
                                !.ended = @ \cup {camera.threads[i].outcome},
                                !.threads = SubSeq(@, 1, i - 1) \o SubSeq(@, i + 1, Len(@))]
    /\ UNCHANGED <<emotion_classifier, load_attempts, users, callVars, storeVars, wsVars>>
    /\ UNCHANGED <<probeVars, apiVars, pureVars>>

NextCamera ==
    \/ Tick
    \/ StartAnalysis
    \/ \E i \in 1..MaxTime : ThreadRequest(i)
    \/ \E i \in 1..MaxTime : ThreadStore(i)
    \/ \E i \in 1..MaxTime : ThreadReset(i)

SpecCamera == Init /\ [][NextCamera]_vars

\* C29: at most one analysis thread is alive at any time and the flag is set
\* exactly while it is; an analysis starts no sooner than one interval after
\* the start before it; the flag is reset after every request, whatever its
\* outcome.
C29_OneAnalysisAtATime ==
    /\ Len(camera.threads) <= 1
    /\ camera.analysis_in_progress <=> (camera.threads # <<>>)
    /\ camera.previous_start # NoValue =>
          camera.last_analysis_time - camera.previous_start >= AnalysisInterval

\* C29 witness: requests with each outcome have ended, the flag is reset, and
\* a later analysis has been started.
C29_FlagResetAfterEveryOutcome ==
    /\ camera.ended = RequestOutcomes
    /\ ~camera.analysis_in_progress
    /\ camera.previous_start > 0

====
